---- MODULE Spec2Model ----
(***************************************************************************)
(* Model of the Marstek data update coordinator                            *)
(* (custom_components/marstek/coordinator.py): tiered polling              *)
(* (_async_update_data), the config entry update listener                  *)
(* (_async_config_entry_updated) and the registry rename                   *)
(* (_update_entity_names); and of the repair flow                          *)
(* (custom_components/marstek/repairs.py).                                 *)
(*                                                                         *)
(* Strings (addresses, display names) are sequences of characters.  A name *)
(* that is None or "" is the empty sequence: the code treats both alike    *)
(* (`if name and old_ip in name`).                                         *)
(***************************************************************************)
EXTENDS Integers, Sequences, FiniteSets, TLC

VARIABLES
    clock,               \* time.monotonic()
    last_pv_fetch,       \* self._last_pv_fetch
    last_slow_fetch,     \* self._last_slow_fetch
    data,                \* self.data, the coordinator's stored record
    pc,                  \* "idle", or "fetching" while get_device_status is awaited
    current_ip,          \* local of _async_update_data
    current_time,        \* local of _async_update_data
    include_pv,          \* local of _async_update_data
    include_slow,        \* local of _async_update_data
    pause_query,         \* argument of the last is_polling_paused call
    fetch_request,       \* arguments of the get_device_status call in flight
    fetch_calls,         \* get_device_status calls made by the current/last poll
    fetch_result,        \* what get_device_status did in the current/last poll
    result,              \* how the last poll ended
    returned,            \* the record the last poll returned
    failure_report,      \* the address named by the last poll's UpdateFailed
    pv_success_time,     \* history: start time of the last validated poll with include_pv
    slow_success_time,   \* history: start time of the last validated poll with include_slow
    pv_return_time,      \* history: start time of the last poll whose fetch returned with include_pv
    slow_return_time,    \* history: start time of the last poll whose fetch returned with include_slow
    raised_pv,           \* history: the last fetch raised, and its poll had include_pv
    raised_slow,         \* history: the last fetch raised, and its poll had include_slow
    host,                \* config_entry.data[CONF_HOST] (<<>>: key absent)
    initial_device_ip,   \* self._initial_device_ip
    listener_pending,    \* update listener scheduled, not yet run
    has_identifier,      \* config_entry.data carries ble_mac / mac / wifi_mac
    device,              \* what async_get_device yields for the identifier
    entity_names,        \* entity registry: names of the entry's entities
    registry_calls,      \* registry calls made by the last listener run
    updated_count,       \* updated_count at the end of _update_entity_names
    rebind,              \* the last listener run: kind, old_ip, new_ip
    config_entries,      \* ids of the config entries hass holds
    entry_hosts,         \* entry.data.get("host") of each config entry
    issues,              \* ids of the issues in the issue registry
    fix_flow,            \* the CannotConnectRepairFlow: state, _entry_id, issue_id
    create_outcome,      \* the last async_create_fix_flow: its data, how it ended
    step_result,         \* what the last async_step_init returned, and its user_input
    step_calls           \* calls made by the last async_step_init, in order

vars == <<clock, last_pv_fetch, last_slow_fetch, data, pc, current_ip,
          current_time, include_pv, include_slow, pause_query, fetch_request,
          fetch_calls, fetch_result, result, returned, failure_report,
          pv_success_time, slow_success_time, pv_return_time,
          slow_return_time, raised_pv, raised_slow, host, initial_device_ip,
          listener_pending, has_identifier, device, entity_names,
          registry_calls, updated_count, rebind, config_entries, entry_hosts,
          issues, fix_flow, create_outcome, step_result, step_calls>>

pollVars == <<last_pv_fetch, last_slow_fetch, data, pc, current_ip,
              current_time, include_pv, include_slow, pause_query,
              fetch_request, fetch_calls, fetch_result, result, returned,
              failure_report, pv_success_time, slow_success_time,
              pv_return_time, slow_return_time, raised_pv, raised_slow>>

rebindVars == <<host, initial_device_ip, listener_pending, has_identifier,
                device, entity_names, registry_calls, updated_count, rebind>>

repairVars == <<config_entries, entry_hosts, issues, fix_flow, create_outcome,
                step_result, step_calls>>

-----------------------------------------------------------------------------
(* Program constants *)

SCAN_INTERVAL == 30
MEDIUM_POLL_INTERVAL == 60
SLOW_POLL_INTERVAL == 300

(* Bounds of the model *)

MaxClock == 630          \* the monotonic clock stops advancing here
MaxVal == 2              \* fresh readings are drawn from 1..MaxVal
MaxNameLen == 2          \* initial display names have at most this length

Entities == {"sensor_a", "sensor_b"}   \* entities of the config entry

-----------------------------------------------------------------------------
(* Strings *)

Chars == {"1", "2", "x"}

Addrs == {<<"1">>, <<"2">>, <<"1", "2">>}

NoString == <<>>

StringsUpTo(n) == UNION {[1..k -> Chars] : k \in 0..n}

\* Python `sub in s`
Contains(s, sub) ==
    \E i \in 1..(Len(s) - Len(sub) + 1) : SubSeq(s, i, i + Len(sub) - 1) = sub

\* s.replace(old, new, 1): the first occurrence only
ReplaceFirst(s, old, new) ==
    IF \E i \in 1..(Len(s) - Len(old) + 1) : SubSeq(s, i, i + Len(old) - 1) = old
    THEN LET i == CHOOSE k \in 1..(Len(s) - Len(old) + 1) :
                     /\ SubSeq(s, k, k + Len(old) - 1) = old
                     /\ \A j \in 1..(k - 1) : SubSeq(s, j, j + Len(old) - 1) # old
         IN SubSeq(s, 1, i - 1) \o new \o SubSeq(s, i + Len(old), Len(s))
    ELSE s

\* Python s.replace(old, new) for a non-empty old: leftmost, non-overlapping
RECURSIVE Replace(_, _, _)
Replace(s, old, new) ==
    IF Len(s) < Len(old) THEN s
    ELSE IF SubSeq(s, 1, Len(old)) = old
         THEN new \o Replace(SubSeq(s, Len(old) + 1, Len(s)), old, new)
         ELSE <<Head(s)>> \o Replace(Tail(s), old, new)

-----------------------------------------------------------------------------
(* Device status records.  A field value 0 means the key is absent.        *)

None == [is_none |-> TRUE, device_mode |-> "missing", fast |-> 0, pv |-> 0, slow |-> 0]

EmptyRecord == [is_none |-> FALSE, device_mode |-> "missing", fast |-> 0, pv |-> 0, slow |-> 0]

Modes == {"Auto", "Unknown", "missing"}

\* what get_device_status may raise
Exceptions == {"TimeoutError", "OSError", "ValueError", "KeyError"}

\* only a timeout is caught
CaughtTimeoutOnly == {"TimeoutError"}

\* except (TimeoutError, OSError, ValueError)
Caught == {"TimeoutError", "OSError", "ValueError"}

Never == 0 - 1

\* device_status.get("device_mode", "Unknown")
DeviceMode(rec) == IF rec.device_mode = "missing" THEN "Unknown" ELSE rec.device_mode

\* a missing device_mode passes for valid
HasValidDataNoDefault(rec) == rec.device_mode # "Unknown"

\* has_valid_data = device_mode != "Unknown"
HasValidData(rec) == DeviceMode(rec) # "Unknown"

\* self.data, without the `or {}`
DataOrEmptyNoDefault(d) == d

\* self.data or {}
DataOrEmpty(d) == IF d.is_none \/ d = EmptyRecord THEN EmptyRecord ELSE d

\* the address given at construction, whatever the config entry says
DeviceIpStale == initial_device_ip

\* device_ip property
DeviceIp == IF host # NoString THEN host ELSE initial_device_ip

\* the tier's last fetch is not subtracted
TierDueSinceBoot(now, last, interval) == now >= interval

\* a tier is due only after more than its interval
TierDueStrict(now, last, interval) == (now - last) > interval

\* include_pv / include_slow
TierDue(now, last, interval) == (now - last) >= interval

\* The Device Client's get_device_status: the fast tier is always fetched,
\* the fields of a tier that was not requested are copied from previous_status.
MergedStatus(prev, mode, v, pvFlag, slowFlag) ==
    [is_none |-> FALSE,
     device_mode |-> mode,
     fast |-> v,
     pv |-> IF pvFlag THEN v ELSE prev.pv,
     slow |-> IF slowFlag THEN v ELSE prev.slow]

NoRequest == [ip |-> NoString, include_pv |-> FALSE, include_slow |-> FALSE,
              previous_status |-> None]

NoCalls == [get_device |-> 0, update_device |-> 0, entries |-> 0, update_entity |-> 0]

\* async_get_device finds nothing: the registry holds no device for the
\* identifier, or the config entry carries no identifier to look up
NoDevice == [present |-> FALSE, name |-> NoString]

NoRebind == [kind |-> "none", old_ip |-> NoString, new_ip |-> NoString]

-----------------------------------------------------------------------------
(* Repair flow values *)

\* DOMAIN (const.py)
Domain == "marstek"

EntryIds == {"entry_1", "entry_2"}

IssueIds == {"cannot_connect_entry_1", "cannot_connect_entry_2"}

NoEntryId == "None"

\* the issue data handed to async_create_fix_flow: None, or a dict that may
\* hold an entry_id and may hold other keys
IssueData ==
    {[is_none |-> TRUE, other_keys |-> FALSE, entry_id |-> NoEntryId]}
    \cup [is_none : {FALSE}, other_keys : BOOLEAN, entry_id : EntryIds \cup {NoEntryId}]

NoData == [is_none |-> TRUE, other_keys |-> FALSE, entry_id |-> NoEntryId]

NoCreate == [result |-> "none", data |-> NoData]

NoFlow == [state |-> "none", entry_id |-> NoEntryId, issue_id |-> "None"]

NoResult == [type |-> "none", reason |-> "", step_id |-> "", host |-> "",
             data |-> "", user_input |-> "none"]

-----------------------------------------------------------------------------
(* Initial state: the coordinator after __init__ *)

InitPoll ==
    /\ last_pv_fetch = 0
    /\ last_slow_fetch = 0
    /\ data = None
    /\ pc = "idle"
    /\ current_ip = NoString
    /\ current_time = 0
    /\ include_pv = FALSE
    /\ include_slow = FALSE
    /\ pause_query = NoString
    /\ fetch_request = NoRequest
    /\ fetch_calls = 0
    /\ fetch_result = "none"
    /\ result = "none"
    /\ returned = None
    /\ failure_report = NoString
    /\ pv_success_time = Never
    /\ slow_success_time = Never
    /\ pv_return_time = Never
    /\ slow_return_time = Never
    /\ raised_pv = FALSE
    /\ raised_slow = FALSE

InitListener ==
    /\ listener_pending = FALSE
    /\ registry_calls = NoCalls
    /\ updated_count = 0
    /\ rebind = NoRebind

\* no repair flow yet; one config entry, its issue raised
InitRepair ==
    /\ config_entries = {"entry_1"}
    /\ entry_hosts = [e \in EntryIds |-> "1.2.3.4"]
    /\ issues = {"cannot_connect_entry_1"}
    /\ fix_flow = NoFlow
    /\ create_outcome = NoCreate
    /\ step_result = NoResult
    /\ step_calls = <<>>

\* Polling: the clock runs, the registry is fixed
Init ==
    /\ clock \in {0, SLOW_POLL_INTERVAL}
    /\ InitPoll
    /\ InitListener
    /\ InitRepair
    /\ initial_device_ip = <<"1">>
    /\ host = initial_device_ip
    /\ has_identifier = TRUE
    /\ device = [present |-> TRUE, name |-> <<"x", "1">>]
    /\ entity_names = [e \in Entities |-> <<"1">>]

\* Polling and address changes: the clock stands, a few registries
InitRebind ==
    /\ clock \in {0, SLOW_POLL_INTERVAL}
    /\ InitPoll
    /\ InitListener
    /\ InitRepair
    /\ initial_device_ip \in {<<"1">>, <<"1", "2">>}
    /\ host = initial_device_ip
    /\ has_identifier \in BOOLEAN
    /\ device \in {NoDevice} \cup
                  (IF has_identifier
                   THEN {[present |-> TRUE, name |-> <<"x", "1">>]} ELSE {})
    /\ entity_names \in {[e \in Entities |-> <<"x">>],
                         [e \in Entities |-> IF e = "sensor_a" THEN <<"1", "2">> ELSE NoString]}

\* The cadence scenario: the clock is past the slow interval at the start
InitCadence ==
    /\ clock = SLOW_POLL_INTERVAL
    /\ InitPoll
    /\ InitListener
    /\ InitRepair
    /\ initial_device_ip = <<"1">>
    /\ host = initial_device_ip
    /\ has_identifier = TRUE
    /\ device = [present |-> TRUE, name |-> <<"x", "1">>]
    /\ entity_names = [e \in Entities |-> <<"1">>]

\* Address changes alone: every registry with names of up to MaxNameLen characters
InitNames ==
    /\ clock = 0
    /\ InitPoll
    /\ InitListener
    /\ InitRepair
    /\ initial_device_ip \in Addrs
    /\ host = initial_device_ip
    /\ has_identifier \in BOOLEAN
    /\ device \in {NoDevice} \cup
                  (IF has_identifier
                   THEN [present : {TRUE}, name : StringsUpTo(MaxNameLen)] ELSE {})
    /\ entity_names \in [Entities -> StringsUpTo(MaxNameLen)]

-----------------------------------------------------------------------------
(* Time: the scheduler's base tick *)

Tick ==
    /\ clock + SCAN_INTERVAL <= MaxClock
    /\ clock' = clock + SCAN_INTERVAL
    /\ UNCHANGED pollVars
    /\ UNCHANGED rebindVars
    /\ UNCHANGED repairVars

\* Time between the polls of the cadence scenario: 30 s, then 35 s (65 s
\* after the first poll), then 240 s (305 s after it)
Elapse ==
    /\ \E dt \in {SCAN_INTERVAL,
                   MEDIUM_POLL_INTERVAL + 5 - SCAN_INTERVAL,
                   SLOW_POLL_INTERVAL - MEDIUM_POLL_INTERVAL} :
          /\ clock + dt <= MaxClock
          /\ clock' = clock + dt
    /\ UNCHANGED pollVars
    /\ UNCHANGED rebindVars
    /\ UNCHANGED repairVars

-----------------------------------------------------------------------------
(* _async_update_data *)

\* lines 86-91: polling is paused, the poll returns self.data or {}
PollPaused ==
    /\ pc = "idle"
    /\ pause_query' = DeviceIp
    /\ fetch_calls' = 0
    /\ fetch_result' = "none"
    /\ result' = "paused"
    /\ returned' = DataOrEmpty(data)
    /\ failure_report' = NoString
    /\ data' = DataOrEmpty(data)
    /\ UNCHANGED <<last_pv_fetch, last_slow_fetch, pc, current_ip, current_time,
                   include_pv, include_slow, fetch_request,
                   pv_success_time, slow_success_time,
                   pv_return_time, slow_return_time, raised_pv, raised_slow>>
    /\ UNCHANGED clock
    /\ UNCHANGED rebindVars
    /\ UNCHANGED repairVars

\* the timestamp stays as it was
FetchTimeKept(include, now, last) == last

\* `if include_pv: self._last_pv_fetch = current_time` (lines 126-129)
FetchTime(include, now, last) == IF include THEN now ELSE last

\* the failure names the address configured when the poll fails
FailureIpReread == DeviceIp

\* `f"Polling failed for {current_ip}"` (lines 145, 168): the poll's own address
FailureIp == current_ip

\* the poll begins, passing no previous_status to get_device_status
PollBeginNoPrevious ==
    /\ pc = "idle"
    /\ current_ip' = DeviceIp
    /\ pause_query' = DeviceIp
    /\ current_time' = clock
    /\ include_pv' = TierDue(clock, last_pv_fetch, MEDIUM_POLL_INTERVAL)
    /\ include_slow' = TierDue(clock, last_slow_fetch, SLOW_POLL_INTERVAL)
    /\ fetch_request' = [ip |-> current_ip',
                         include_pv |-> include_pv',
                         include_slow |-> include_slow',
                         previous_status |-> None]
    /\ fetch_calls' = 1
    /\ fetch_result' = "pending"
    /\ result' = "pending"
    /\ returned' = None
    /\ failure_report' = NoString
    /\ pc' = "fetching"
    /\ UNCHANGED <<last_pv_fetch, last_slow_fetch, data,
                   pv_success_time, slow_success_time,
                   pv_return_time, slow_return_time, raised_pv, raised_slow>>
    /\ UNCHANGED clock
    /\ UNCHANGED rebindVars
    /\ UNCHANGED repairVars

\* lines 86-123: polling is not paused; up to the await of get_device_status
PollBegin ==
    /\ pc = "idle"
    /\ current_ip' = DeviceIp
    /\ pause_query' = DeviceIp
    /\ current_time' = clock
    /\ include_pv' = TierDue(clock, last_pv_fetch, MEDIUM_POLL_INTERVAL)
    /\ include_slow' = TierDue(clock, last_slow_fetch, SLOW_POLL_INTERVAL)
    /\ fetch_request' = [ip |-> current_ip',
                         include_pv |-> include_pv',
                         include_slow |-> include_slow',
                         previous_status |-> data]
    /\ fetch_calls' = 1
    /\ fetch_result' = "pending"
    /\ result' = "pending"
    /\ returned' = None
    /\ failure_report' = NoString
    /\ pc' = "fetching"
    /\ UNCHANGED <<last_pv_fetch, last_slow_fetch, data,
                   pv_success_time, slow_success_time,
                   pv_return_time, slow_return_time, raised_pv, raised_slow>>
    /\ UNCHANGED clock
    /\ UNCHANGED rebindVars
    /\ UNCHANGED repairVars

\* the locals of _async_update_data are gone when it ends
PollEnd ==
    /\ pc' = "idle"
    /\ current_ip' = NoString
    /\ current_time' = 0
    /\ include_pv' = FALSE
    /\ include_slow' = FALSE
    /\ fetch_request' = NoRequest
    /\ UNCHANGED <<pause_query, fetch_calls>>

\* lines 125-158, 159-168: get_device_status returned device_status
FetchReturn ==
    /\ pc = "fetching"
    /\ \E mode \in Modes, v \in 1..MaxVal :
          LET device_status == MergedStatus(fetch_request.previous_status, mode, v,
                                            fetch_request.include_pv,
                                            fetch_request.include_slow)
          IN /\ fetch_result' = mode
             /\ last_pv_fetch' = FetchTime(include_pv, current_time, last_pv_fetch)
             /\ last_slow_fetch' = FetchTime(include_slow, current_time, last_slow_fetch)
             /\ pv_return_time' = IF include_pv THEN current_time ELSE pv_return_time
             /\ slow_return_time' = IF include_slow THEN current_time ELSE slow_return_time
             /\ raised_pv' = FALSE
             /\ raised_slow' = FALSE
             /\ IF HasValidData(device_status)
                THEN /\ result' = "success"
                     /\ returned' = device_status
                     /\ failure_report' = NoString
                     /\ data' = device_status
                     /\ pv_success_time' =
                           IF include_pv THEN current_time ELSE pv_success_time
                     /\ slow_success_time' =
                           IF include_slow THEN current_time ELSE slow_success_time
                ELSE /\ result' = "UpdateFailed"
                     /\ returned' = None
                     /\ failure_report' = FailureIp
                     /\ data' = data
                     /\ UNCHANGED <<pv_success_time, slow_success_time>>
    /\ PollEnd
    /\ UNCHANGED clock
    /\ UNCHANGED rebindVars
    /\ UNCHANGED repairVars

\* get_device_status raised, and the poll fetches once more before it fails
FetchRaiseRetries ==
    /\ pc = "fetching"
    /\ \E exc \in Exceptions :
          IF exc \in Caught /\ fetch_calls < 2
          THEN /\ fetch_calls' = fetch_calls + 1
               /\ UNCHANGED <<pc, current_ip, current_time, include_pv, include_slow,
                              fetch_request, pause_query, fetch_result, result, returned,
                              failure_report, raised_pv, raised_slow>>
          ELSE /\ raised_pv' = include_pv
               /\ raised_slow' = include_slow
               /\ fetch_result' = exc
               /\ result' = IF exc \in Caught THEN "UpdateFailed" ELSE exc
               /\ failure_report' = IF exc \in Caught THEN FailureIp ELSE NoString
               /\ returned' = None
               /\ PollEnd
    /\ UNCHANGED <<last_pv_fetch, last_slow_fetch, data,
                   pv_success_time, slow_success_time,
                   pv_return_time, slow_return_time>>
    /\ UNCHANGED clock
    /\ UNCHANGED rebindVars
    /\ UNCHANGED repairVars

\* get_device_status raised, and the stored record is dropped
FetchRaiseClearsData ==
    /\ pc = "fetching"
    /\ \E exc \in Exceptions :
          /\ fetch_result' = exc
          /\ result' = IF exc \in Caught THEN "UpdateFailed" ELSE exc
          /\ failure_report' = IF exc \in Caught THEN FailureIp ELSE NoString
    /\ returned' = None
    /\ data' = None
    /\ PollEnd
    /\ raised_pv' = include_pv
    /\ raised_slow' = include_slow
    /\ UNCHANGED <<last_pv_fetch, last_slow_fetch, pv_success_time, slow_success_time,
                   pv_return_time, slow_return_time>>
    /\ UNCHANGED clock
    /\ UNCHANGED rebindVars
    /\ UNCHANGED repairVars

\* lines 113-123, 159-168: get_device_status raised
FetchRaise ==
    /\ pc = "fetching"
    /\ \E exc \in Exceptions :
          /\ fetch_result' = exc
          /\ result' = IF exc \in Caught THEN "UpdateFailed" ELSE exc
          /\ failure_report' = IF exc \in Caught THEN FailureIp ELSE NoString
    /\ returned' = None
    /\ PollEnd
    /\ raised_pv' = include_pv
    /\ raised_slow' = include_slow
    /\ UNCHANGED <<last_pv_fetch, last_slow_fetch, data,
                   pv_success_time, slow_success_time,
                   pv_return_time, slow_return_time>>
    /\ UNCHANGED clock
    /\ UNCHANGED rebindVars
    /\ UNCHANGED repairVars

-----------------------------------------------------------------------------
(* Address changes *)

\* `if name and old_ip in name` (lines 205, 222)
NameMatches(name, old_ip) == name # NoString /\ Contains(name, old_ip)

\* name.replace(old_ip, new_ip) where the name matches (lines 206, 223)
Renamed(name, old_ip, new_ip) ==
    IF NameMatches(name, old_ip) THEN Replace(name, old_ip, new_ip) ELSE name

\* every named entity counts, renamed or not
UpdatedCountNamed(names, old_ip) ==
    Cardinality({e \in Entities : names[e] # NoString})

\* updated_count (lines 220-233)
UpdatedCount(names, old_ip) ==
    Cardinality({e \in Entities : NameMatches(names[e], old_ip)})

\* always true: the listener renames whether or not the address changed
AddressChangedAlways(new_ip, old_ip) == TRUE

\* `if new_ip != old_ip` (line 180)
AddressChanged(new_ip, old_ip) == new_ip # old_ip

\* the host changes config_entry.data and schedules the update listeners
UpdateEntry ==
    /\ \E h \in Addrs \cup {NoString} : host' = h
    /\ listener_pending' = TRUE
    /\ UNCHANGED <<initial_device_ip, has_identifier, device, entity_names,
                   registry_calls, updated_count, rebind>>
    /\ UNCHANGED pollVars
    /\ UNCHANGED clock
    /\ UNCHANGED repairVars

\* the listener, giving up the renames when the device lookup finds nothing
ConfigEntryUpdatedNeedsDevice ==
    /\ listener_pending
    /\ listener_pending' = FALSE
    /\ LET old_ip == initial_device_ip
           new_ip == IF host # NoString THEN host ELSE old_ip
           found == has_identifier /\ device.present
       IN IF AddressChanged(new_ip, old_ip)
          THEN /\ device' = IF found
                            THEN [device EXCEPT !.name = Renamed(@, old_ip, new_ip)]
                            ELSE device
               /\ entity_names' = IF found
                                  THEN [e \in Entities |->
                                          Renamed(entity_names[e], old_ip, new_ip)]
                                  ELSE entity_names
               /\ updated_count' = IF found THEN UpdatedCount(entity_names, old_ip) ELSE 0
               /\ registry_calls' =
                     [get_device |-> IF has_identifier THEN 1 ELSE 0,
                      update_device |->
                         IF found /\ NameMatches(device.name, old_ip) THEN 1 ELSE 0,
                      entries |-> IF found THEN 1 ELSE 0,
                      update_entity |->
                         IF found THEN UpdatedCount(entity_names, old_ip) ELSE 0]
               /\ initial_device_ip' = new_ip
               /\ rebind' = [kind |-> "rebound", old_ip |-> old_ip, new_ip |-> new_ip]
          ELSE /\ rebind' = [kind |-> "noop", old_ip |-> old_ip, new_ip |-> new_ip]
               /\ registry_calls' = NoCalls
               /\ updated_count' = 0
               /\ UNCHANGED <<device, entity_names, initial_device_ip>>
    /\ UNCHANGED <<host, has_identifier>>
    /\ UNCHANGED pollVars
    /\ UNCHANGED clock
    /\ UNCHANGED repairVars

\* _async_config_entry_updated with _update_entity_names (lines 170-241)
ConfigEntryUpdated ==
    /\ listener_pending
    /\ listener_pending' = FALSE
    /\ LET old_ip == initial_device_ip
           new_ip == IF host # NoString THEN host ELSE old_ip
           found == has_identifier /\ device.present
       IN IF AddressChanged(new_ip, old_ip)
          THEN /\ device' = IF found
                            THEN [device EXCEPT !.name = Renamed(@, old_ip, new_ip)]
                            ELSE device
               /\ entity_names' = [e \in Entities |->
                                      Renamed(entity_names[e], old_ip, new_ip)]
               /\ updated_count' = UpdatedCount(entity_names, old_ip)
               /\ registry_calls' =
                     [get_device |-> IF has_identifier THEN 1 ELSE 0,
                      update_device |->
                         IF found /\ NameMatches(device.name, old_ip) THEN 1 ELSE 0,
                      entries |-> 1,
                      update_entity |-> UpdatedCount(entity_names, old_ip)]
               /\ initial_device_ip' = new_ip
               /\ rebind' = [kind |-> "rebound", old_ip |-> old_ip, new_ip |-> new_ip]
          ELSE /\ rebind' = [kind |-> "noop", old_ip |-> old_ip, new_ip |-> new_ip]
               /\ registry_calls' = NoCalls
               /\ updated_count' = 0
               /\ UNCHANGED <<device, entity_names, initial_device_ip>>
    /\ UNCHANGED <<host, has_identifier>>
    /\ UNCHANGED pollVars
    /\ UNCHANGED clock
    /\ UNCHANGED repairVars

-----------------------------------------------------------------------------
(* repairs.py *)

\* entry_id = data.get("entry_id") if data else None (line 59)
EntryIdOf(d) ==
    IF d.is_none \/ (~d.other_keys /\ d.entry_id = NoEntryId)
    THEN NoEntryId
    ELSE d.entry_id

\* data["entry_id"]: a subscript in place of the guarded get
CreateOutcomeSubscript(d) ==
    IF d.is_none THEN "TypeError"
    ELSE IF d.entry_id = NoEntryId THEN "KeyError" ELSE "flow"

\* async_create_fix_flow (lines 53-62): a flow, or ValueError
CreateOutcome(d) == IF EntryIdOf(d) = NoEntryId THEN "ValueError" ELSE "flow"

\* async_create_fix_flow
CreateFixFlow ==
    /\ \E issue_id \in IssueIds, d \in IssueData :
          /\ create_outcome' = [result |-> CreateOutcome(d), data |-> d]
          /\ fix_flow' = IF create_outcome'.result = "flow"
                         THEN [state |-> "open", entry_id |-> d.entry_id,
                               issue_id |-> issue_id]
                         ELSE NoFlow
    /\ step_result' = NoResult
    /\ step_calls' = <<>>
    /\ UNCHANGED <<config_entries, entry_hosts, issues>>
    /\ UNCHANGED pollVars
    /\ UNCHANGED rebindVars
    /\ UNCHANGED clock

\* the calls of a submitted step, the issue left in the registry
StepCallsKeepsIssue(exists, user_input, flow) ==
    IF exists /\ user_input # "None"
    THEN <<[call |-> "flow.async_init", domain |-> Domain,
            source |-> "reconfigure", id |-> flow.entry_id]>>
    ELSE <<>>

\* the calls of a step that looks at user_input before the entry
StepCallsSubmitFirst(exists, user_input, flow) ==
    IF user_input # "None"
    THEN <<[call |-> "flow.async_init", domain |-> Domain,
            source |-> "reconfigure", id |-> flow.entry_id],
           [call |-> "async_delete_issue", domain |-> Domain,
            source |-> "", id |-> flow.issue_id]>>
    ELSE <<>>

\* the calls async_step_init makes (lines 31-41)
StepCalls(exists, user_input, flow) ==
    IF exists /\ user_input # "None"
    THEN <<[call |-> "flow.async_init", domain |-> Domain,
            source |-> "reconfigure", id |-> flow.entry_id],
           [call |-> "async_delete_issue", domain |-> Domain,
            source |-> "", id |-> flow.issue_id]>>
    ELSE <<>>

\* what async_step_init returns (lines 27-50)
StepResult(exists, user_input, flow) ==
    IF ~exists
    THEN [type |-> "abort", reason |-> "entry_not_found", step_id |-> "",
          host |-> "", data |-> "", user_input |-> user_input]
    ELSE IF user_input # "None"
         THEN [type |-> "create_entry", reason |-> "", step_id |-> "",
               host |-> "", data |-> "{}", user_input |-> user_input]
         ELSE [type |-> "form", reason |-> "", step_id |-> "init",
               host |-> IF entry_hosts[flow.entry_id] = "missing"
                        THEN "unknown" ELSE entry_hosts[flow.entry_id],
               data |-> "", user_input |-> user_input]

\* CannotConnectRepairFlow.async_step_init (lines 23-50)
StepInit ==
    /\ fix_flow.state = "open"
    /\ \E user_input \in {"None", "{}"} :
          LET exists == fix_flow.entry_id \in config_entries
              calls == StepCalls(exists, user_input, fix_flow)
          IN /\ step_calls' = calls
             /\ step_result' = StepResult(exists, user_input, fix_flow)
             /\ issues' = issues \ {calls[i].id : i \in
                                       {j \in 1..Len(calls) :
                                          calls[j].call = "async_delete_issue"}}
             /\ fix_flow' = [fix_flow EXCEPT !.state =
                                IF step_result'.type = "form" THEN "open" ELSE "done"]
    /\ create_outcome' = create_outcome
    /\ UNCHANGED <<config_entries, entry_hosts>>
    /\ UNCHANGED pollVars
    /\ UNCHANGED rebindVars
    /\ UNCHANGED clock

\* hass: a config entry is added, with or without a host, or removed
EntriesChange ==
    /\ \E e \in EntryIds :
          \/ /\ e \in config_entries
             /\ config_entries' = config_entries \ {e}
             /\ UNCHANGED entry_hosts
          \/ /\ e \notin config_entries
             /\ config_entries' = config_entries \cup {e}
             /\ \E h \in {"1.2.3.4", "missing"} :
                   entry_hosts' = [entry_hosts EXCEPT ![e] = h]
    /\ UNCHANGED <<issues, fix_flow, create_outcome, step_result, step_calls>>
    /\ UNCHANGED pollVars
    /\ UNCHANGED rebindVars
    /\ UNCHANGED clock

\* the integration raises a cannot_connect issue
IssueCreated ==
    /\ \E i \in IssueIds : issues' = issues \cup {i}
    /\ UNCHANGED <<config_entries, entry_hosts, fix_flow, create_outcome,
                   step_result, step_calls>>
    /\ UNCHANGED pollVars
    /\ UNCHANGED rebindVars
    /\ UNCHANGED clock

-----------------------------------------------------------------------------

Next ==
    \/ Tick
    \/ PollPaused
    \/ PollBegin
    \/ FetchReturn
    \/ FetchRaise

Spec == Init /\ [][Next]_vars

NextRebind ==
    \/ PollPaused
    \/ PollBegin
    \/ FetchReturn
    \/ FetchRaise
    \/ UpdateEntry
    \/ ConfigEntryUpdated

SpecRebind == InitRebind /\ [][NextRebind]_vars

NextCadence ==
    \/ Elapse
    \/ PollBegin
    \/ FetchReturn

SpecCadence == InitCadence /\ [][NextCadence]_vars

NextRepair ==
    \/ CreateFixFlow
    \/ StepInit
    \/ EntriesChange
    \/ IssueCreated

SpecRepair == Init /\ [][NextRepair]_vars

NextNames ==
    \/ UpdateEntry
    \/ ConfigEntryUpdated

SpecNames == InitNames /\ [][NextNames]_vars

-----------------------------------------------------------------------------
(* Steps the properties speak about *)

\* a poll starts: it reads the address and asks the pause flag
PollStarts == PollPaused \/ PollBegin

\* the awaited get_device_status call ends, and the poll with it
PollEnds == pc = "fetching" /\ pc' = "idle"

\* the update listener runs
ListenerRuns == listener_pending /\ ~listener_pending'

-----------------------------------------------------------------------------
(* C1: a poll that ends in UpdateFailed, by a transport error or by a      *)
(* record with device_mode "Unknown", leaves _last_pv_fetch and            *)
(* _last_slow_fetch as they were before the call.                          *)
C1_FailedPollKeepsTimestamps ==
    [][(PollEnds /\ result' = "UpdateFailed")
          => (last_pv_fetch' = last_pv_fetch /\ last_slow_fetch' = last_slow_fetch)]_vars

(* C2: once a tier was fetched successfully, a non-paused poll requests    *)
(* the PV tier iff 60 s or more passed since the last validated poll that  *)
(* included it, and the slow tier iff 300 s or more passed likewise.       *)
C2_TierCadence ==
    pc = "fetching" =>
        /\ pv_success_time # Never =>
              (include_pv <=> current_time - pv_success_time >= 60)
        /\ slow_success_time # Never =>
              (include_slow <=> current_time - slow_success_time >= 300)

(* C3: a fetched record whose device_mode is "Unknown" or missing ends the *)
(* poll in UpdateFailed; it is not returned and not stored.                *)
C3_UnknownModeFails ==
    [][(PollEnds /\ fetch_result' \in {"Unknown", "missing"})
          => (result' = "UpdateFailed" /\ returned' = None /\ data' = data)]_vars

C3_Witness ==
    /\ result = "UpdateFailed"
    /\ fetch_result = "missing"
    /\ data.device_mode = "Auto"

(* C4: a poll that ends in UpdateFailed leaves the stored record as it     *)
(* was, and the stored record changes only when a poll succeeds (a paused  *)
(* poll stores the empty record where there was none).                     *)
C4_StaleDataRetained ==
    [][/\ (PollEnds /\ result' # "success") => data' = data
       /\ data' # data =>
             \/ PollEnds /\ result' = "success"
             \/ result' = "paused" /\ data = None /\ data' = EmptyRecord]_vars

C4_Witness ==
    /\ result = "UpdateFailed"
    /\ fetch_result = "TimeoutError"
    /\ data.device_mode = "Auto"
    /\ clock >= pv_success_time + 60

(* C5: a poll that finds polling paused returns the stored record (the     *)
(* empty record when there is none) and leaves both tier timestamps alone; *)
(* it fetches nothing.                                                     *)
C5_PausedPollIsNoOp ==
    [][(pc = "idle" /\ result' = "paused")
          => /\ returned' = (IF data = None THEN EmptyRecord ELSE data)
             /\ data' = returned'
             /\ last_pv_fetch' = last_pv_fetch
             /\ last_slow_fetch' = last_slow_fetch
             /\ fetch_calls' = 0
             /\ pc' = "idle"]_vars

C5_Witness ==
    /\ result = "paused"
    /\ returned.device_mode = "Auto"
    /\ returned = data
    /\ clock >= last_pv_fetch + 60
    /\ last_pv_fetch > 0

(* C6 as stated: every poll ends with a valid record or with UpdateFailed, *)
(* whatever get_device_status raises.                                      *)
C6_AllFailuresContained ==
    result \in {"none", "pending", "paused", "success", "UpdateFailed"}

(* C6 as amended: a poll whose fetch returns a record or raises            *)
(* TimeoutError, OSError or ValueError ends with a valid record or with    *)
(* UpdateFailed; any other exception leaves the poll as it was raised.     *)
C6_TransportFailuresContained ==
    [][PollEnds =>
          /\ fetch_result' \in {"TimeoutError", "OSError", "ValueError",
                                "Unknown", "missing"}
                => result' = "UpdateFailed"
          /\ fetch_result' = "Auto"
                => (result' = "success" /\ returned'.device_mode = "Auto")
          /\ fetch_result' = "KeyError" => result' = "KeyError"]_vars

C6_Witness ==
    /\ result = "UpdateFailed"
    /\ fetch_result = "OSError"

-----------------------------------------------------------------------------
(* Reference definitions for the rename properties *)

\* old occurs in s at position i
OccursAt(s, old, i) ==
    /\ i >= 1
    /\ i + Len(old) - 1 <= Len(s)
    /\ \A k \in 1..Len(old) : s[i + k - 1] = old[k]

Occurs(s, old) == \E i \in 1..Len(s) : OccursAt(s, old, i)

\* s from position i on, with every occurrence of old (scanning left to
\* right, occurrences not overlapping) replaced by new
RECURSIVE Substituted(_, _, _, _)
Substituted(s, old, new, i) ==
    IF i > Len(s) THEN <<>>
    ELSE IF OccursAt(s, old, i)
         THEN new \o Substituted(s, old, new, i + Len(old))
         ELSE <<s[i]>> \o Substituted(s, old, new, i + 1)

\* what a naming record must read after rebind(old, new)
Expected(name, old, new) ==
    IF Occurs(name, old) THEN Substituted(name, old, new, 1) ELSE name

\* the listener runs and finds the address changed from old to new
Rebinds(old, new) ==
    /\ ListenerRuns
    /\ old = initial_device_ip
    /\ new = host
    /\ new # NoString
    /\ new # old

ChangedEntities == {e \in Entities : entity_names'[e] # entity_names[e]}

-----------------------------------------------------------------------------
(* C7: once the configured host is new_address, every poll asks the pause  *)
(* flag and fetches with new_address; after the listener rebound old to    *)
(* new no poll uses old, whether or not a name matched or a device was     *)
(* found.                                                                  *)
C7_PollsUseNewAddress ==
    [][(PollStarts /\ host # NoString)
          => /\ pause_query' = host
             /\ pc' = "fetching" => fetch_request'.ip = host
             /\ (rebind.kind = "rebound" /\ ~listener_pending)
                   => (pause_query' = rebind.new_ip /\ pause_query' # rebind.old_ip)]_vars

C7_Witness ==
    /\ rebind.kind = "rebound"
    /\ ~listener_pending
    /\ registry_calls.update_device = 0
    /\ registry_calls.update_entity = 0
    /\ pc = "fetching"
    /\ fetch_request.ip = rebind.new_ip
    /\ pause_query = rebind.new_ip

(* C8: rebind(old, new) with old # new rewrites every naming record that   *)
(* contains old by substituting new for old, issuing one rename call for   *)
(* it, and leaves every other naming record as it was, with no rename call.*)
C8_RenameBySubstring ==
    [][\A old, new \in Addrs :
          Rebinds(old, new) =>
             /\ \A e \in Entities :
                   entity_names'[e] = Expected(entity_names[e], old, new)
             /\ registry_calls'.update_entity =
                   Cardinality({e \in Entities : Occurs(entity_names[e], old)})
             /\ (has_identifier /\ device.present) =>
                   /\ device'.name = Expected(device.name, old, new)
                   /\ registry_calls'.update_device =
                         (IF Occurs(device.name, old) THEN 1 ELSE 0)
             /\ ~(has_identifier /\ device.present) =>
                   (device' = device /\ registry_calls'.update_device = 0)]_vars

C8_Witness ==
    /\ rebind.kind = "rebound"
    /\ rebind.old_ip = <<"1">>
    /\ rebind.new_ip = <<"1", "2">>
    /\ registry_calls.update_device = 1
    /\ registry_calls.update_entity = 1
    /\ device.name = <<"1", "2", "1", "2">>
    /\ entity_names["sensor_a"] = <<"x", "1", "2">>
    /\ entity_names["sensor_b"] = <<"2", "x">>

(* C9 as stated: the update count of rebind(old, new) is the number of     *)
(* naming records it changed, the device display name included.            *)
C9_CountIncludesDevice ==
    [][\A old, new \in Addrs :
          Rebinds(old, new) =>
             updated_count' = Cardinality(ChangedEntities)
                              + (IF device'.name # device.name THEN 1 ELSE 0)]_vars

(* C9 as amended: the update count of rebind(old, new) is the number of    *)
(* entity display names it changed, the device display name not counted;   *)
(* rebind completes when that number is zero.                              *)
C9_CountIsEntitiesChanged ==
    [][\A old, new \in Addrs :
          Rebinds(old, new) =>
             /\ updated_count' = Cardinality(ChangedEntities)
             /\ rebind' = [kind |-> "rebound", old_ip |-> old, new_ip |-> new]
             /\ initial_device_ip' = new]_vars

C9_Witness ==
    /\ rebind.kind = "rebound"
    /\ updated_count = 1
    /\ registry_calls.update_device = 1
    /\ \E e \in Entities : entity_names[e] # NoString /\ ~Occurs(entity_names[e], rebind.new_ip)

(* C10: when the new address equals the address last rebound to, the       *)
(* listener makes no registry lookup and no rename call and changes        *)
(* neither the address, the tier timestamps nor the stored record.         *)
C10_SameAddressIsNoOp ==
    [][(ListenerRuns /\ (host = NoString \/ host = initial_device_ip))
          => /\ registry_calls' = NoCalls
             /\ UNCHANGED <<device, entity_names, initial_device_ip, host>>
             /\ UNCHANGED <<last_pv_fetch, last_slow_fetch, data>>]_vars

C10_Witness ==
    /\ rebind.kind = "noop"
    /\ rebind.new_ip = rebind.old_ip
    /\ host = initial_device_ip
    /\ registry_calls = NoCalls
    /\ data.device_mode = "Auto"

(* C11: when rebind(old, new) finds no device for the identifier, or the   *)
(* config entry carries no identifier, the device rename is skipped, the   *)
(* entity display names containing old are still rewritten and the         *)
(* remembered address becomes new.                                         *)
C11_LookupMissIsNotFatal ==
    [][\A old, new \in Addrs :
          (Rebinds(old, new) /\ (~has_identifier \/ ~device.present)) =>
             /\ registry_calls'.update_device = 0
             /\ registry_calls'.get_device = (IF has_identifier THEN 1 ELSE 0)
             /\ device' = device
             /\ \A e \in Entities :
                   Occurs(entity_names[e], old)
                      => /\ entity_names'[e] = Substituted(entity_names[e], old, new, 1)
                         /\ entity_names'[e] # entity_names[e]
             /\ registry_calls'.entries = 1
             /\ initial_device_ip' = new
             /\ rebind'.kind = "rebound"]_vars

C11_Witness ==
    /\ rebind.kind = "rebound"
    /\ ~has_identifier
    /\ device = NoDevice
    /\ registry_calls.get_device = 0
    /\ registry_calls.update_entity = 2
    /\ initial_device_ip = rebind.new_ip

-----------------------------------------------------------------------------
(* C12: on a freshly initialized coordinator with no stored record, a      *)
(* non-paused poll at monotonic time 0 requests the PV and the slow tier.  *)
C12_FirstPollRequestsAllTiers ==
    (/\ pc = "fetching"
     /\ current_time = 0
     /\ fetch_request.previous_status = None
     /\ last_pv_fetch = 0
     /\ last_slow_fetch = 0
     /\ pv_success_time = Never
     /\ slow_success_time = Never)
        => (include_pv /\ include_slow)

(* C14: every fetch is given the stored record as previous_status, and     *)
(* after a successful poll that did not request a tier the tier's fields   *)
(* in the stored record are those of the record stored before the poll.    *)
C14_CumulativeMerge ==
    [][/\ (pc = "idle" /\ pc' = "fetching") => fetch_request'.previous_status = data
       /\ (PollEnds /\ result' = "success") =>
             /\ ~include_pv => data'.pv = data.pv
             /\ ~include_slow => data'.slow = data.slow]_vars

C14_Witness ==
    /\ result = "success"
    /\ pc = "idle"
    /\ data.fast = 2
    /\ data.pv = 1
    /\ data.slow = 1
    /\ last_pv_fetch = last_slow_fetch
    /\ clock < last_pv_fetch + 60

(* C15: a skipped tick and a paused poll change neither tier timestamp nor *)
(* the stored record, and the next non-paused poll requests the PV tier    *)
(* iff 60 s or more, and the slow tier iff 300 s or more, have passed      *)
(* since that tier's timestamp, however long polling was suspended.        *)
C15_ResumesFromElapsedTime ==
    [][/\ (clock' # clock \/ (pc = "idle" /\ result' = "paused")) =>
             /\ last_pv_fetch' = last_pv_fetch
             /\ last_slow_fetch' = last_slow_fetch
             /\ (IF data' = None THEN EmptyRecord ELSE data')
                   = (IF data = None THEN EmptyRecord ELSE data)
       /\ (pc = "idle" /\ pc' = "fetching") =>
             /\ current_time' = clock
             /\ include_pv' <=> (clock >= last_pv_fetch + 60)
             /\ include_slow' <=> (clock >= last_slow_fetch + 300)]_vars

C15_Witness ==
    /\ pc = "fetching"
    /\ last_pv_fetch > 0
    /\ last_slow_fetch > 0
    /\ current_time >= last_pv_fetch + 90
    /\ current_time >= last_slow_fetch + 330
    /\ include_pv
    /\ include_slow

(* C16: a poll calls get_device_status once when polling is not paused and *)
(* not at all when it is paused; when the call ends the poll ends, with no *)
(* second call before the next poll.                                       *)
C16_NoRetryInsidePoll ==
    [][/\ (pc = "idle" /\ result' = "paused") => fetch_calls' = 0
       /\ (pc = "idle" /\ pc' = "fetching") => fetch_calls' = 1
       /\ pc = "fetching" =>
             /\ fetch_calls' = fetch_calls
             /\ fetch_calls' = 1
             /\ fetch_result' # "pending" => (pc' = "idle" /\ fetch_request' = NoRequest)]_vars

C16_Witness ==
    /\ pc = "idle"
    /\ result = "UpdateFailed"
    /\ fetch_result = "TimeoutError"
    /\ fetch_calls = 1
    /\ fetch_request = NoRequest

-----------------------------------------------------------------------------
(* C13: after a successful poll at t0 that included the PV and the slow    *)
(* tier, a poll at t0+30 requests neither, a poll at t0+65 (no PV fetch    *)
(* since t0) requests PV and not slow, and a poll at t0+305 (PV last       *)
(* fetched at t0+65, slow at t0) requests both.  The timestamps being the  *)
(* times of the last validated fetches says that no other poll touched a   *)
(* tier in between.                                                        *)
C13_CadenceScenario ==
    (/\ pc = "fetching"
     /\ slow_success_time # Never
     /\ last_slow_fetch = slow_success_time
     /\ last_pv_fetch = pv_success_time)
        => LET t0 == slow_success_time
           IN /\ (pv_success_time = t0 /\ current_time = t0 + 30)
                    => (~include_pv /\ ~include_slow)
              /\ (pv_success_time = t0 /\ current_time = t0 + 65)
                    => (include_pv /\ ~include_slow)
              /\ (pv_success_time = t0 + 65 /\ current_time = t0 + 305)
                    => (include_pv /\ include_slow)

C13_Witness ==
    /\ pc = "fetching"
    /\ slow_success_time = 300
    /\ last_slow_fetch = 300
    /\ pv_success_time = 365
    /\ last_pv_fetch = 365
    /\ current_time = 605
    /\ include_pv
    /\ include_slow
    /\ fetch_request.previous_status.device_mode = "Auto"

-----------------------------------------------------------------------------
(* C17: submitting the init step for an existing config entry starts one   *)
(* reconfigure flow for the domain with the entry's id in its context,     *)
(* then deletes the repair issue, and returns create_entry with empty      *)
(* data; the issue is then gone from the issue registry.                   *)
C17_SubmitStartsReconfigure ==
    [][(/\ StepInit
        /\ fix_flow.entry_id \in config_entries
        /\ step_result'.user_input = "{}")
          => /\ step_calls' =
                   <<[call |-> "flow.async_init", domain |-> "marstek",
                      source |-> "reconfigure", id |-> fix_flow.entry_id],
                     [call |-> "async_delete_issue", domain |-> "marstek",
                      source |-> "", id |-> fix_flow.issue_id]>>
             /\ step_result'.type = "create_entry"
             /\ step_result'.data = "{}"
             /\ fix_flow.issue_id \notin issues'
             /\ issues' = issues \ {fix_flow.issue_id}]_vars

C17_Witness ==
    /\ step_result.type = "create_entry"
    /\ step_result.user_input = "{}"
    /\ Len(step_calls) = 2
    /\ fix_flow.entry_id \in config_entries
    /\ fix_flow.issue_id \notin issues
    /\ issues # {}

(* C18: async_create_fix_flow returns a flow bound to data["entry_id"]     *)
(* when the issue data holds an entry_id, and raises ValueError, creating  *)
(* no flow, when the data is None, empty or without entry_id.              *)
C18_FixFlowNeedsEntryId ==
    LET d == create_outcome.data
        holds_entry_id == ~d.is_none /\ d.entry_id \in EntryIds
    IN create_outcome.result # "none" =>
          /\ holds_entry_id =>
                /\ create_outcome.result = "flow"
                /\ fix_flow.state # "none"
                /\ fix_flow.entry_id = d.entry_id
          /\ ~holds_entry_id =>
                /\ create_outcome.result = "ValueError"
                /\ fix_flow = NoFlow

C18_Witness ==
    /\ create_outcome.result = "ValueError"
    /\ ~create_outcome.data.is_none
    /\ create_outcome.data.other_keys
    /\ fix_flow = NoFlow

(* C19: when the flow's config entry is gone async_step_init aborts with   *)
(* "entry_not_found" whatever the user_input, starting no flow and         *)
(* deleting no issue; when the entry exists and user_input is None it      *)
(* shows the "init" form with the entry's host as placeholder ("unknown"   *)
(* when the entry has none), again with no side effect.                    *)
C19_AbortOrForm ==
    [][StepInit =>
          /\ fix_flow.entry_id \notin config_entries =>
                /\ step_result'.type = "abort"
                /\ step_result'.reason = "entry_not_found"
                /\ step_calls' = <<>>
                /\ issues' = issues
          /\ (fix_flow.entry_id \in config_entries /\ step_result'.user_input = "None") =>
                /\ step_result'.type = "form"
                /\ step_result'.step_id = "init"
                /\ step_result'.host =
                      (IF entry_hosts[fix_flow.entry_id] = "missing"
                       THEN "unknown" ELSE entry_hosts[fix_flow.entry_id])
                /\ step_calls' = <<>>
                /\ issues' = issues]_vars

C19_Witness ==
    /\ step_result.type = "abort"
    /\ step_result.reason = "entry_not_found"
    /\ step_result.user_input = "{}"
    /\ fix_flow.issue_id \in issues
    /\ step_calls = <<>>

-----------------------------------------------------------------------------
(* C20: a poll uses one address throughout.  The address configured when   *)
(* the poll starts is the one of its pause query and of its fetch, it      *)
(* stays the poll's address while the fetch is in flight whatever happens  *)
(* to the configured address, and it is the one the failure report names;  *)
(* a successful in-flight poll still stores its result as the record.  A   *)
(* changed address is used by the next poll that starts.                   *)
ConfiguredIp == IF host # NoString THEN host ELSE initial_device_ip

C20_OneAddressPerPoll ==
    [][/\ PollStarts => pause_query' = ConfiguredIp
       /\ PollBegin => /\ current_ip' = ConfiguredIp
                       /\ fetch_request'.ip = ConfiguredIp
       /\ (pc = "fetching" /\ pc' = "fetching") =>
             /\ current_ip' = current_ip
             /\ pause_query' = pause_query
             /\ fetch_request'.ip = fetch_request.ip
       /\ PollEnds =>
             /\ pause_query = current_ip
             /\ fetch_request.ip = current_ip
             /\ result' = "UpdateFailed" => failure_report' = current_ip
             /\ result' = "success" => (data' = returned' /\ ~data'.is_none)]_vars

C20_Witness ==
    /\ result = "UpdateFailed"
    /\ failure_report = pause_query
    /\ host # NoString
    /\ host # failure_report
    /\ initial_device_ip # failure_report

-----------------------------------------------------------------------------
(* C21: minimum spacing of tier requests.  A poll whose fetch returns with *)
(* the PV tier requested started 60 s or more after the previous such      *)
(* poll, and one with the slow tier requested 300 s or more after the      *)
(* previous such poll.  A fetch that raises does not count: it moves no    *)
(* tier's time, and the tiers its poll requested are requested again by    *)
(* the next poll that fetches.                                             *)
FetchReturns == PollEnds /\ fetch_result' \in Modes

FetchRaises == PollEnds /\ fetch_result' \in Exceptions

C21_MinimumSpacing ==
    [][/\ (FetchReturns /\ include_pv /\ pv_return_time # Never) =>
             current_time - pv_return_time >= 60
       /\ (FetchReturns /\ include_slow /\ slow_return_time # Never) =>
             current_time - slow_return_time >= 300
       /\ FetchRaises =>
             /\ last_pv_fetch' = last_pv_fetch
             /\ last_slow_fetch' = last_slow_fetch
             /\ pv_return_time' = pv_return_time
             /\ slow_return_time' = slow_return_time
       /\ (PollBegin /\ raised_pv) => include_pv'
       /\ (PollBegin /\ raised_slow) => include_slow']_vars

C21_Witness ==
    /\ pc = "fetching"
    /\ raised_pv
    /\ raised_slow
    /\ include_pv
    /\ include_slow
    /\ pv_return_time # Never
    /\ slow_return_time # Never
    /\ current_time - pv_return_time >= 60
    /\ current_time - slow_return_time = 300

====
